---- MODULE Spec2Model ----
(***************************************************************************)
(* sercat: serial read/write test program (src/sercat.c).                  *)
(*                                                                         *)
(* The model follows main() and device_open() statement by statement.      *)
(* 32-bit words (speed_t, unsigned, int) are held by their two's-complement*)
(* reading, so the word 0xFFFFFFFF is the integer -1, whether the C type   *)
(* is speed_t or int.  An unsigned long (LP64) is held as <<hi, lo>> with  *)
(* value hi * 2^32 + lo.                                                   *)
(* A line of text printed by the program is held as one element Msg(l),    *)
(* l the source line of the call that prints it; data bytes are 0..255.    *)
(* printf() goes through stdio: line-buffered when standard output is a    *)
(* terminal, otherwise buffered until exit() (the lines are far shorter    *)
(* than a stdio buffer); write() goes to the descriptor directly.          *)
(* A tcsetattr() that fails leaves the driver's settings as they were.     *)
(***************************************************************************)
EXTENDS Integers, Sequences, FiniteSets, TLC

\* ------------------------------------------------------------------------
\* Bounds of the model
\* ------------------------------------------------------------------------
MaxArgs == 3          \* longest argument list (program name excluded)
MaxChunks == 1        \* full BUF_SIZE chunks the source can yield
MaxShort == 1         \* largest short count a read or a write returns
MaxShortReads == 1    \* short reads the source delivers in one run
MaxAbsent == 1        \* how far beyond the table entries the lookups are probed

\* ------------------------------------------------------------------------
\* Program constants
\* ------------------------------------------------------------------------
BUF_SIZE == 1024

\* flags of open(2)
O_RDONLY == 0
O_WRONLY == 1

\* file descriptors
STDIN_FILENO == 0
STDOUT_FILENO == 1
DEV_FD == 3           \* the descriptor open() returns (the lowest free one)

\* exit(-1): the status the parent sees is (-1) & 0377
EXIT_M1 == 255
\* exit(1) in usage(), exit(0) at the end of main()
EXIT_USAGE == 1
EXIT_OK == 0

\* a line of text printed at source line l
Msg(l) == 256 + l

\* The speed table: struct speed speeds[], with the B* symbols of Linux
\* <asm-generic/termbits.h> (B0 = 0 .. B38400 = 017, B57600 = 010001 ..).
speeds ==
  << [sym |-> 0,    val |-> 0],
     [sym |-> 1,    val |-> 50],
     [sym |-> 2,    val |-> 75],
     [sym |-> 3,    val |-> 110],
     [sym |-> 4,    val |-> 134],
     [sym |-> 5,    val |-> 150],
     [sym |-> 6,    val |-> 200],
     [sym |-> 7,    val |-> 300],
     [sym |-> 8,    val |-> 600],
     [sym |-> 9,    val |-> 1200],
     [sym |-> 10,   val |-> 1800],
     [sym |-> 11,   val |-> 2400],
     [sym |-> 12,   val |-> 4800],
     [sym |-> 13,   val |-> 9600],
     [sym |-> 14,   val |-> 19200],
     [sym |-> 15,   val |-> 38400],
     [sym |-> 4097, val |-> 57600],
     [sym |-> 4098, val |-> 115200],
     [sym |-> 4099, val |-> 230400],
     [sym |-> 4100, val |-> 460800],
     [sym |-> 4101, val |-> 500000],
     [sym |-> 4102, val |-> 576000],
     [sym |-> 4103, val |-> 921600],
     [sym |-> 4104, val |-> 1000000],
     [sym |-> 4105, val |-> 1152000],
     [sym |-> 4106, val |-> 1500000],
     [sym |-> 4107, val |-> 2000000],
     [sym |-> 4108, val |-> 2500000],
     [sym |-> 4109, val |-> 3000000],
     [sym |-> 4110, val |-> 3500000],
     [sym |-> 4111, val |-> 4000000] >>

NSPEEDS == Len(speeds)    \* sizeof(speeds)/sizeof(*speeds)

\* for (i = 0; i < n; i++) if (speeds[i].sym == speed) return speeds[i].val;
RECURSIVE ScanVal(_, _)
ScanVal(i, speed) ==
  IF i > NSPEEDS THEN -1
  ELSE IF speeds[i].sym = speed THEN speeds[i].val
  ELSE ScanVal(i + 1, speed)

get_speed_val_NotFoundZero(speed) ==
  IF \E i \in 1..NSPEEDS : speeds[i].sym = speed THEN ScanVal(1, speed) ELSE 0

\* static int get_speed_val(speed_t speed)
get_speed_val(speed) == ScanVal(1, speed)

\* for (i = 0; i < n; i++) if (speeds[i].val == speed) return speeds[i].sym;
RECURSIVE ScanSym(_, _)
ScanSym(i, speed) ==
  IF i > NSPEEDS THEN -1
  ELSE IF speeds[i].val = speed THEN speeds[i].sym
  ELSE ScanSym(i + 1, speed)

\* static speed_t get_speed_sym(unsigned speed); return -1 is the word
\* 0xFFFFFFFF, which the caller's "int sym" reads back as -1
get_speed_sym(speed) == ScanSym(1, speed)

TableSyms == { speeds[i].sym : i \in 1..NSPEEDS }
TableVals == { speeds[i].val : i \in 1..NSPEEDS }

\* ------------------------------------------------------------------------
\* Command line
\* ------------------------------------------------------------------------
DevPath == "/dev/ttyS0"

\* the words an argument list is drawn from (the other spelling of each
\* option is in FlagWords and UsageArgs below)
Tokens == { "-h", "-f", "--noflow", "-r", "--write", "-s", "-v",
            DevPath, "0", "9600", "12345" }

\* the flags and the -s operands the option sets below are built from
FlagWords == << "-f", "-n", "-r", "-w", "-v" >>
SpeedWords == { "0", "9600", "12345", "4294976896" }

\* strtoul(s, NULL, 0) on the words above, as <<hi, lo>> (LP64 unsigned
\* long): a word with no leading digits converts to 0
strtoul(s) ==
  CASE s = "0"          -> << 0, 0 >>
    [] s = "9600"       -> << 0, 9600 >>
    [] s = "12345"      -> << 0, 12345 >>
    [] s = "4294976896" -> << 1, 9600 >>
    [] OTHER            -> << 0, 0 >>

\* assignment of an unsigned long to a uint32_t keeps the low word
ToUint32(ul) == ul[2]

RECURSIVE SeqsUpTo(_, _)
SeqsUpTo(S, n) ==
  IF n = 0 THEN { << >> }
  ELSE LET shorter == SeqsUpTo(S, n - 1)
       IN  shorter \cup { Append(s, t) : s \in shorter, t \in S }

\* one argument list for every set of options, in a fixed order
FlagsOf(F) == SelectSeq(FlagWords, LAMBDA t : t \in F)

CanonArgs ==
  { FlagsOf(F) \o sp \o dv :
      F \in SUBSET { FlagWords[i] : i \in 1..Len(FlagWords) },
      sp \in { << >> } \cup { << "-s", w >> : w \in SpeedWords },
      dv \in { << >>, << DevPath >> } }

\* argument lists that end in usage() while the options are being read
UsageArgs == { << "-h" >>, << DevPath, "--help" >>, << DevPath, "-s" >>,
               << "--speed" >>, << DevPath, DevPath >> }

\* ------------------------------------------------------------------------
\* State
\* ------------------------------------------------------------------------
VARIABLES
  args,         \* argv[1..] as the process was started (never modified)
  argc,         \* main's argc; argv[1] is args[Len(args) + 2 - argc]
  opt_dev, opt_speed, opt_read, opt_write, opt_hwflow, opt_noflow, opt_verbose,
  speed_ul,     \* the unsigned long strtoul() last returned, <<hi, lo>>
  pc,           \* the statement main/device_open is at
  exit_status,  \* << >> while running, <<status>> once exited
  stderr,       \* lines written to the error stream
  stdout_tty,   \* standard output is a terminal (stdio line-buffers it)
  stdio_buf,    \* text printf() has buffered for standard output
  stdout_file,  \* everything descriptor 1 has accepted
  src_len,      \* bytes the source holds before end-of-stream
  dev_kind,     \* what the path names: "tty" or "file"
  dev_attr,     \* the attributes the driver currently applies
  dev_data,     \* everything the device has accepted through write()
  ops,          \* the calls issued on the device, in order
  flags, fd, termios,    \* device_open's parameter and locals
  rx_fd, tx_fd, buf, in, out,   \* main's locals
  rdpos,        \* bytes the source has delivered so far
  nshort,       \* short reads the source has delivered so far
  q             \* the last speed table lookup: [fn, arg, res, back]

optVars == << opt_dev, opt_speed, opt_read, opt_write, opt_hwflow, opt_noflow,
              opt_verbose, speed_ul >>
envVars == << args, stdout_tty, src_len, q >>
devVars == << dev_kind, dev_attr, dev_data, ops, flags, fd, termios >>
ioVars  == << rx_fd, tx_fd, buf, in, out, rdpos, nshort >>
outVars == << stdio_buf, stdout_file >>
endVars == << exit_status, stderr >>

vars == << args, argc, opt_dev, opt_speed, opt_read, opt_write, opt_hwflow,
           opt_noflow, opt_verbose, speed_ul, pc, exit_status, stderr,
           stdout_tty, stdio_buf, stdout_file, src_len, dev_kind, dev_attr,
           dev_data, ops, flags, fd, termios, rx_fd, tx_fd, buf, in, out,
           rdpos, nshort, q >>

NULL == ""
UNSET == -99          \* an int or ssize_t local not yet assigned

NoTermios == [raw |-> FALSE, crtscts |-> FALSE, ispeed |-> 0, ospeed |-> 0]

\* the line settings a serial port comes up with: cooked, RTS/CTS per the
\* driver default, 9600 bps (B9600 = 13) or 115200 bps (B115200 = 4098)
BootAttrs ==
  { [raw |-> FALSE, crtscts |-> TRUE,  ispeed |-> 13,   ospeed |-> 13],
    [raw |-> FALSE, crtscts |-> FALSE, ispeed |-> 4098, ospeed |-> 4098] }

NoLookup == [fn |-> "none", arg |-> 0, res |-> 0, back |-> 0]

\* the source's i-th byte
SrcByte(i) == i % 256
SrcData(lo, hi) == [ i \in 1..(hi - lo) |-> SrcByte(lo + i) ]

SrcLens == { c * BUF_SIZE + e : c \in 0..MaxChunks, e \in { 0, MaxShort } }

\* the process image at the start of main()
InitProcess ==
  /\ argc = Len(args) + 1
  /\ opt_dev = NULL /\ opt_speed = 0
  /\ opt_read = FALSE /\ opt_write = FALSE
  /\ opt_hwflow = FALSE /\ opt_noflow = FALSE /\ opt_verbose = FALSE
  /\ speed_ul = << 0, 0 >>
  /\ exit_status = << >> /\ stderr = << >>
  /\ stdio_buf = << >> /\ stdout_file = << >>
  /\ dev_kind = "unopened" /\ dev_attr = NoTermios /\ dev_data = << >>
  /\ ops = << >>
  /\ flags = UNSET /\ fd = UNSET /\ termios = NoTermios
  /\ rx_fd = UNSET /\ tx_fd = UNSET
  /\ buf = << >> /\ in = UNSET /\ out = UNSET
  /\ rdpos = 0 /\ nshort = 0

InitCommon ==
  /\ pc = "parse"
  /\ stdout_tty \in BOOLEAN
  /\ q = NoLookup
  /\ InitProcess

\* every set of options, sources longer than one chunk
Init ==
  /\ args \in CanonArgs \cup UsageArgs
  /\ src_len \in SrcLens
  /\ InitCommon

\* every argument list up to MaxArgs words, short sources
InitCli ==
  /\ args \in SeqsUpTo(Tokens, MaxArgs)
  /\ src_len \in { 0, MaxShort }
  /\ InitCommon


\* ------------------------------------------------------------------------
\* Standard output and process exit
\* ------------------------------------------------------------------------
\* pr_debug(): printf() only with opt_verbose
pr_debug(msgs) == IF opt_verbose THEN msgs ELSE << >>

\* printf() of whole lines: a terminal is line-buffered, so each line is
\* written at once; anything else is fully buffered until exit()
Printf(msgs) ==
  /\ stdio_buf' = IF stdout_tty THEN << >> ELSE stdio_buf \o msgs
  /\ stdout_file' = IF stdout_tty THEN stdout_file \o stdio_buf \o msgs
                    ELSE stdout_file

\* pr_error() or usage() text on the unbuffered error stream, then
\* exit(status)
Exit(status, errs) ==
  /\ pc' = "exit"
  /\ exit_status' = << status >>
  /\ stderr' = stderr \o errs

\* inside exit(): stdio flushes what printf() has buffered to descriptor 1,
\* then the process is gone
AtExit ==
  /\ pc = "exit"
  /\ stdout_file' = stdout_file \o stdio_buf
  /\ stdio_buf' = << >>
  /\ pc' = "exited"
  /\ UNCHANGED << argc, optVars, args, stdout_tty, src_len, q, dev_kind,
                  dev_attr, dev_data, ops, flags, fd, termios, rx_fd, tx_fd,
                  buf, in, out, rdpos, nshort, exit_status, stderr >>

\* static void usage(void): fprintf(stderr, ...); exit(1);
usage == Exit(EXIT_USAGE, << Msg(153) >>) /\ UNCHANGED outVars

\* ------------------------------------------------------------------------
\* main(): option parsing, lines 259-302
\* ------------------------------------------------------------------------
Arg1 == args[Len(args) + 2 - argc]
Arg2 == args[Len(args) + 3 - argc]

InLoop == pc = "parse" /\ argc > 1

ParseHelp ==
  /\ InLoop
  /\ Arg1 \in { "-h", "--help" }
  /\ usage
  /\ UNCHANGED << argc, optVars, envVars, devVars, ioVars >>

ParseHwflow ==
  /\ InLoop
  /\ Arg1 \in { "-f", "--hwflow" }
  /\ opt_hwflow' = TRUE
  /\ argc' = argc - 1
  /\ UNCHANGED << opt_dev, opt_speed, opt_read, opt_write, opt_noflow,
                  opt_verbose, speed_ul, pc, envVars, devVars, ioVars, outVars,
                  endVars >>

ParseNoflow ==
  /\ InLoop
  /\ Arg1 \in { "-n", "--noflow" }
  /\ opt_noflow' = TRUE
  /\ argc' = argc - 1
  /\ UNCHANGED << opt_dev, opt_speed, opt_read, opt_write, opt_hwflow,
                  opt_verbose, speed_ul, pc, envVars, devVars, ioVars, outVars,
                  endVars >>

ParseRead ==
  /\ InLoop
  /\ Arg1 \in { "-r", "--read" }
  /\ opt_read' = TRUE
  /\ argc' = argc - 1
  /\ UNCHANGED << opt_dev, opt_speed, opt_write, opt_hwflow, opt_noflow,
                  opt_verbose, speed_ul, pc, envVars, devVars, ioVars, outVars,
                  endVars >>

ParseWrite ==
  /\ InLoop
  /\ Arg1 \in { "-w", "--write" }
  /\ opt_write' = TRUE
  /\ argc' = argc - 1
  /\ UNCHANGED << opt_dev, opt_speed, opt_read, opt_hwflow, opt_noflow,
                  opt_verbose, speed_ul, pc, envVars, devVars, ioVars, outVars,
                  endVars >>

\* -s with no word after it: usage()
ParseSpeedMissing ==
  /\ InLoop
  /\ Arg1 \in { "-s", "--speed" }
  /\ argc <= 2
  /\ usage
  /\ UNCHANGED << argc, optVars, envVars, devVars, ioVars >>

\* opt_speed = strtoul(argv[2], NULL, 0); argv++; argc--; (and the loop's
\* own argv++; argc--)
ParseSpeed ==
  /\ InLoop
  /\ Arg1 \in { "-s", "--speed" }
  /\ argc > 2
  /\ speed_ul' = strtoul(Arg2)
  /\ opt_speed' = ToUint32(speed_ul')
  /\ argc' = argc - 2
  /\ UNCHANGED << opt_dev, opt_read, opt_write, opt_hwflow, opt_noflow,
                  opt_verbose, pc, envVars, devVars, ioVars, outVars, endVars >>

ParseVerbose ==
  /\ InLoop
  /\ Arg1 \in { "-v", "--verbose" }
  /\ opt_verbose' = TRUE
  /\ argc' = argc - 1
  /\ UNCHANGED << opt_dev, opt_speed, opt_read, opt_write, opt_hwflow,
                  opt_noflow, speed_ul, pc, envVars, devVars, ioVars, outVars,
                  endVars >>

OptionWords == { "-h", "--help", "-f", "--hwflow", "-n", "--noflow",
                 "-r", "--read", "-w", "--write", "-s", "--speed",
                 "-v", "--verbose" }

\* } else if (!opt_dev) { opt_dev = argv[1];
ParseDev ==
  /\ InLoop
  /\ Arg1 \notin OptionWords
  /\ opt_dev = NULL
  /\ opt_dev' = Arg1
  /\ argc' = argc - 1
  /\ UNCHANGED << opt_speed, opt_read, opt_write, opt_hwflow, opt_noflow,
                  opt_verbose, speed_ul, pc, envVars, devVars, ioVars, outVars,
                  endVars >>

\* } else { usage(); }
ParseExtra ==
  /\ InLoop
  /\ Arg1 \notin OptionWords
  /\ opt_dev # NULL
  /\ usage
  /\ UNCHANGED << argc, optVars, envVars, devVars, ioVars >>

\* the test without its flow-control conflict
BadOptions_NoFlowConflict ==
  \/ opt_dev = NULL
  \/ (opt_read /\ opt_write)

\* if (!opt_dev || (opt_hwflow && opt_noflow) || (opt_read && opt_write))
BadOptions ==
  \/ opt_dev = NULL
  \/ (opt_hwflow /\ opt_noflow)
  \/ (opt_read /\ opt_write)

CheckUsage ==
  /\ pc = "parse" /\ argc <= 1
  /\ BadOptions
  /\ usage
  /\ UNCHANGED << argc, optVars, envVars, devVars, ioVars >>

\* rx_fd = 0; tx_fd = device_open(opt_dev, O_WRONLY);   or
\* rx_fd = device_open(opt_dev, O_RDONLY); tx_fd = 1;   (the call itself)
CallDeviceOpen ==
  /\ pc = "parse" /\ argc <= 1
  /\ ~BadOptions
  /\ flags' = IF opt_write THEN O_WRONLY ELSE O_RDONLY
  /\ rx_fd' = IF opt_write THEN STDIN_FILENO ELSE rx_fd
  /\ pc' = "open"
  /\ UNCHANGED << argc, optVars, envVars, dev_kind, dev_attr, dev_data, ops,
                  fd, termios, tx_fd, buf, in, out, rdpos, nshort, outVars,
                  endVars >>


\* ------------------------------------------------------------------------
\* device_open(), lines 169-251
\* ------------------------------------------------------------------------
\* return fd; and the assignment of the result in main (lines 298-301)
ReturnFd ==
  /\ pc' = "read"
  /\ IF flags = O_WRONLY
       THEN tx_fd' = fd /\ rx_fd' = rx_fd
       ELSE rx_fd' = fd /\ tx_fd' = STDOUT_FILENO

\* fd = open(pathname, flags) succeeds; the path names a terminal with some
\* line settings, or a regular file
OpenOk(kind, attr) ==
  /\ pc = "open"
  /\ Printf(pr_debug(<< Msg(174) >>))
  /\ fd' = DEV_FD
  /\ dev_kind' = kind
  /\ dev_attr' = IF kind = "tty" THEN attr ELSE NoTermios
  /\ ops' = Append(ops, "open")
  /\ pc' = "tcgetattr"
  /\ UNCHANGED << argc, optVars, envVars, dev_data, flags, termios, ioVars,
                  endVars >>

\* if (fd < 0) { pr_error("Failed to open ..."); exit(-1); }
OpenFail ==
  /\ pc = "open"
  /\ fd' = -1
  /\ ops' = Append(ops, "open")
  /\ Printf(pr_debug(<< Msg(174) >>))
  /\ Exit(EXIT_M1, << Msg(177) >>)
  /\ UNCHANGED << argc, optVars, envVars, dev_kind, dev_attr, dev_data, flags,
                  termios, ioVars >>

\* tcgetattr(fd, &termios) succeeds
TcgetattrOk ==
  /\ pc = "tcgetattr"
  /\ dev_kind = "tty"
  /\ termios' = dev_attr
  /\ ops' = Append(ops, "tcgetattr")
  /\ Printf(pr_debug(<< Msg(194), Msg(195), Msg(196), Msg(197) >>))
  /\ pc' = "raw"
  /\ UNCHANGED << argc, optVars, envVars, dev_kind, dev_attr, dev_data, flags,
                  fd, ioVars, endVars >>

\* the ENOTTY branch without its "return fd"
TcgetattrNotTty_NoReturn ==
  /\ pc = "tcgetattr"
  /\ dev_kind = "file"
  /\ ops' = Append(ops, "tcgetattr")
  /\ Printf(<< Msg(186) >>)
  /\ pc' = "raw"
  /\ UNCHANGED << argc, optVars, envVars, dev_kind, dev_attr, dev_data, flags,
                  fd, termios, ioVars, endVars >>

\* errno == ENOTTY: pr_info("... is not a tty, skipping tty config"); return fd;
TcgetattrNotTty ==
  /\ pc = "tcgetattr"
  /\ dev_kind = "file"
  /\ ops' = Append(ops, "tcgetattr")
  /\ Printf(<< Msg(186) >>)
  /\ ReturnFd
  /\ UNCHANGED << argc, optVars, envVars, dev_kind, dev_attr, dev_data, flags,
                  fd, termios, buf, in, out, rdpos, nshort, endVars >>

\* any other errno: pr_error("Failed to get terminal attributes"); exit(-1);
TcgetattrFail ==
  /\ pc = "tcgetattr"
  /\ dev_kind = "tty"
  /\ ops' = Append(ops, "tcgetattr")
  /\ Exit(EXIT_M1, << Msg(190) >>)
  /\ UNCHANGED outVars
  /\ UNCHANGED << argc, optVars, envVars, dev_kind, dev_attr, dev_data, flags,
                  fd, termios, ioVars >>

\* cfmakeraw(&termios)
cfmakeraw(t) == [t EXCEPT !.raw = TRUE]

\* cfmakeraw(&termios); tcsetattr(fd, TCSANOW, &termios) succeeds
RawOk ==
  /\ pc = "raw"
  /\ Printf(pr_debug(<< Msg(199) >>))
  /\ termios' = cfmakeraw(termios)
  /\ dev_attr' = termios'
  /\ ops' = Append(ops, "tcsetattr:raw")
  /\ pc' = "hwflow"
  /\ UNCHANGED << argc, optVars, envVars, dev_kind, dev_data, flags, fd,
                  ioVars, endVars >>

\* the failure is reported but exit(-1) is missing
RawFail_NoExit ==
  /\ pc = "raw"
  /\ Printf(pr_debug(<< Msg(199) >>))
  /\ termios' = cfmakeraw(termios)
  /\ ops' = Append(ops, "tcsetattr:raw")
  /\ stderr' = Append(stderr, Msg(202))
  /\ pc' = "hwflow"
  /\ UNCHANGED << argc, optVars, envVars, dev_kind, dev_attr, dev_data, flags,
                  fd, ioVars, exit_status >>

\* tcsetattr fails: pr_error("Failed to enable raw mode"); exit(-1);
RawFail ==
  /\ pc = "raw"
  /\ termios' = cfmakeraw(termios)
  /\ ops' = Append(ops, "tcsetattr:raw")
  /\ Printf(pr_debug(<< Msg(199) >>))
  /\ Exit(EXIT_M1, << Msg(202) >>)
  /\ UNCHANGED << argc, optVars, envVars, dev_kind, dev_attr, dev_data, flags,
                  fd, ioVars >>

\* if (opt_hwflow || opt_noflow) is false
HwflowSkip ==
  /\ pc = "hwflow"
  /\ ~(opt_hwflow \/ opt_noflow)
  /\ pc' = "speed"
  /\ UNCHANGED << argc, optVars, envVars, devVars, ioVars, outVars, endVars >>

\* termios.c_cflag |= CRTSCTS or &= ~CRTSCTS
SetCrtscts(t) == [t EXCEPT !.crtscts = opt_hwflow]

HwflowOk ==
  /\ pc = "hwflow"
  /\ opt_hwflow \/ opt_noflow
  /\ termios' = SetCrtscts(termios)
  /\ Printf(pr_debug(<< Msg(211) >>))
  /\ dev_attr' = termios'
  /\ ops' = Append(ops, "tcsetattr:hwflow")
  /\ pc' = "speed"
  /\ UNCHANGED << argc, optVars, envVars, dev_kind, dev_data, flags, fd,
                  ioVars, endVars >>

HwflowFail ==
  /\ pc = "hwflow"
  /\ opt_hwflow \/ opt_noflow
  /\ termios' = SetCrtscts(termios)
  /\ ops' = Append(ops, "tcsetattr:hwflow")
  /\ Printf(pr_debug(<< Msg(211) >>))
  /\ Exit(EXIT_M1, << Msg(214) >>)
  /\ UNCHANGED << argc, optVars, envVars, dev_kind, dev_attr, dev_data, flags,
                  fd, ioVars >>

\* if (opt_speed) is false: pr_debug("Serial speed is %u/%u") only
SpeedNone ==
  /\ pc = "speed"
  /\ opt_speed = 0
  /\ Printf(pr_debug(<< Msg(239) >>))
  /\ pc' = "flush"
  /\ UNCHANGED << argc, optVars, envVars, devVars, ioVars, endVars >>

\* int sym = get_speed_sym(opt_speed); if (sym == -1) { ...; exit(-1); }
SpeedUnknown ==
  /\ pc = "speed"
  /\ opt_speed # 0
  /\ get_speed_sym(opt_speed) = -1
  /\ Exit(EXIT_M1, << Msg(224) >>)
  /\ UNCHANGED outVars
  /\ UNCHANGED << argc, optVars, envVars, devVars, ioVars >>

\* cfsetspeed(&termios, sym): sets c_ispeed and c_ospeed; EINVAL unless
\* sym is one of the B* constants
cfsetspeed_ok(sym) == sym \in TableSyms
cfsetspeed(t, sym) == [t EXCEPT !.ispeed = sym, !.ospeed = sym]

SpeedOk ==
  /\ pc = "speed"
  /\ opt_speed # 0
  /\ LET sym == get_speed_sym(opt_speed)
     IN  /\ sym # -1
         /\ cfsetspeed_ok(sym)
         /\ termios' = cfsetspeed(termios, sym)
  /\ Printf(pr_debug(<< Msg(227) >>))
  /\ dev_attr' = termios'
  /\ ops' = Append(ops, "tcsetattr:speed")
  /\ pc' = "flush"
  /\ UNCHANGED << argc, optVars, envVars, dev_kind, dev_data, flags, fd,
                  ioVars, endVars >>

\* cfsetspeed() or the tcsetattr() after it fails
SpeedFail ==
  /\ pc = "speed"
  /\ opt_speed # 0
  /\ LET sym == get_speed_sym(opt_speed)
     IN  /\ sym # -1
         /\ IF cfsetspeed_ok(sym)
              THEN /\ termios' = cfsetspeed(termios, sym)
                   /\ ops' = Append(ops, "tcsetattr:speed")
                   /\ Exit(EXIT_M1, << Msg(234) >>)
              ELSE /\ UNCHANGED << termios, ops >>
                   /\ Exit(EXIT_M1, << Msg(229) >>)
  /\ Printf(pr_debug(<< Msg(227) >>))
  /\ UNCHANGED << argc, optVars, envVars, dev_kind, dev_attr, dev_data, flags,
                  fd, ioVars >>

\* tcflush(fd, TCIOFLUSH) succeeds; return fd;
FlushOk ==
  /\ pc = "flush"
  /\ Printf(pr_debug(<< Msg(244) >>))
  /\ ops' = Append(ops, "tcflush")
  /\ ReturnFd
  /\ UNCHANGED << argc, optVars, envVars, dev_kind, dev_attr, dev_data, flags,
                  fd, termios, buf, in, out, rdpos, nshort, endVars >>

FlushFail ==
  /\ pc = "flush"
  /\ ops' = Append(ops, "tcflush")
  /\ Printf(pr_debug(<< Msg(244) >>))
  /\ Exit(EXIT_M1, << Msg(246) >>)
  /\ UNCHANGED << argc, optVars, envVars, dev_kind, dev_attr, dev_data, flags,
                  fd, termios, ioVars >>

\* ------------------------------------------------------------------------
\* main(): the relay loop, lines 304-327
\* ------------------------------------------------------------------------
Min(a, b) == IF a < b THEN a ELSE b

\* the counts read(rx_fd, buf, sizeof(buf)) can return with rem bytes left
ReadCounts(rem) ==
  { Min(rem, BUF_SIZE) } \cup
  (IF nshort < MaxShortReads THEN 1..Min(MaxShort, rem) ELSE { })

\* in = read(rx_fd, buf, sizeof(buf)) returns n > 0 bytes
ReadData(n) ==
  /\ pc = "read"
  /\ rdpos < src_len
  /\ in' = n
  /\ buf' = SrcData(rdpos, rdpos + n)
  /\ rdpos' = rdpos + n
  /\ nshort' = IF n < Min(src_len - rdpos, BUF_SIZE) THEN nshort + 1 ELSE nshort
  /\ pc' = "write"
  /\ UNCHANGED << argc, optVars, envVars, devVars, rx_fd, tx_fd, out, outVars,
                  endVars >>

\* if (!in) break;
ReadEof ==
  /\ pc = "read"
  /\ rdpos = src_len
  /\ in' = 0
  /\ pc' = "close"
  /\ UNCHANGED << argc, optVars, envVars, devVars, rx_fd, tx_fd, buf, out,
                  rdpos, nshort, outVars, endVars >>

\* a failed read taken for end-of-stream: if (in <= 0) break;
ReadError_Break ==
  /\ pc = "read"
  /\ in' = -1
  /\ pc' = "close"
  /\ UNCHANGED << argc, optVars, envVars, devVars, rx_fd, tx_fd, buf, out,
                  rdpos, nshort, outVars, endVars >>

\* if (in < 0) { pr_error("Read error"); exit(-1); }
ReadError ==
  /\ pc = "read"
  /\ in' = -1
  /\ Exit(EXIT_M1, << Msg(310) >>)
  /\ UNCHANGED outVars
  /\ UNCHANGED << argc, optVars, envVars, devVars, rx_fd, tx_fd, buf, out,
                  rdpos, nshort >>

\* write(tx_fd, ...) hands bytes to descriptor 1 or to the device
Deliver(bytes) ==
  IF tx_fd = STDOUT_FILENO
    THEN /\ stdout_file' = stdout_file \o bytes
         /\ UNCHANGED dev_data
    ELSE /\ dev_data' = dev_data \o bytes
         /\ UNCHANGED stdout_file

\* out = write(tx_fd, buf, in) returns in
WriteOk ==
  /\ pc = "write"
  /\ out' = in
  /\ Deliver(buf)
  /\ pc' = "read"
  /\ UNCHANGED << argc, optVars, envVars, dev_kind, dev_attr, ops, flags, fd,
                  termios, rx_fd, tx_fd, buf, in, rdpos, nshort, stdio_buf,
                  endVars >>

\* if (out < 0) { pr_error("Write error"); exit(-1); }
WriteError ==
  /\ pc = "write"
  /\ out' = -1
  /\ Exit(EXIT_M1, << Msg(316) >>)
  /\ UNCHANGED outVars
  /\ UNCHANGED << argc, optVars, envVars, devVars, rx_fd, tx_fd, buf, in,
                  rdpos, nshort >>

\* the counts a short write can return
ShortCounts(n) == (0..Min(MaxShort, n - 1)) \cup { n - 1 }

\* if (out < in) { pr_error("Short write"); exit(-1); }
WriteShort(k) ==
  /\ pc = "write"
  /\ k < in
  /\ out' = k
  /\ Deliver(SubSeq(buf, 1, k))
  /\ Exit(EXIT_M1, << Msg(320) >>)
  /\ UNCHANGED << argc, optVars, envVars, dev_kind, dev_attr, ops, flags, fd,
                  termios, rx_fd, tx_fd, buf, in, rdpos, nshort, stdio_buf >>

\* close(opt_write ? tx_fd : rx_fd); exit(0);
Finish ==
  /\ pc = "close"
  /\ ops' = Append(ops, "close")
  /\ Exit(EXIT_OK, << >>)
  /\ UNCHANGED outVars
  /\ UNCHANGED << argc, optVars, envVars, dev_kind, dev_attr, dev_data, flags,
                  fd, termios, ioVars >>

\* ------------------------------------------------------------------------
\* Specifications
\* ------------------------------------------------------------------------
Next ==
  \/ ParseHelp \/ ParseHwflow \/ ParseNoflow \/ ParseRead \/ ParseWrite
  \/ ParseSpeedMissing \/ ParseSpeed \/ ParseVerbose \/ ParseDev \/ ParseExtra
  \/ CheckUsage \/ CallDeviceOpen
  \/ \E kind \in { "tty", "file" }, attr \in BootAttrs : OpenOk(kind, attr)
  \/ OpenFail
  \/ TcgetattrOk \/ TcgetattrNotTty \/ TcgetattrFail
  \/ RawOk \/ RawFail
  \/ HwflowSkip \/ HwflowOk \/ HwflowFail
  \/ SpeedNone \/ SpeedUnknown \/ SpeedOk \/ SpeedFail
  \/ FlushOk \/ FlushFail
  \/ \E n \in ReadCounts(src_len - rdpos) : ReadData(n)
  \/ ReadEof \/ ReadError
  \/ WriteOk \/ WriteError
  \/ \E k \in ShortCounts(in) : WriteShort(k)
  \/ Finish
  \/ AtExit

Spec == Init /\ [][Next]_vars

SpecCli == InitCli /\ [][Next]_vars


\* ------------------------------------------------------------------------
\* The speed table lookups on their own
\* ------------------------------------------------------------------------
LookupSyms ==
  TableSyms \cup { sy + d : sy \in TableSyms, d \in 1..MaxAbsent } \cup { -1 }

LookupVals ==
  TableVals \cup { v + d : v \in TableVals, d \in 1..MaxAbsent }
            \cup { v - d : v \in TableVals \ { 0 }, d \in 1..MaxAbsent }
            \cup { -1 }

\* get_speed_val(sym), and get_speed_sym() of its result (int to unsigned
\* keeps the word)
LookupVal(sym) ==
  /\ pc = "lookup"
  /\ q' = [fn |-> "get_speed_val", arg |-> sym, res |-> get_speed_val(sym),
           back |-> get_speed_sym(get_speed_val(sym))]
  /\ UNCHANGED << argc, optVars, args, stdout_tty, src_len, devVars, ioVars,
                  outVars, endVars, pc >>

\* get_speed_sym(val), and get_speed_val() of its result
LookupSym(val) ==
  /\ pc = "lookup"
  /\ q' = [fn |-> "get_speed_sym", arg |-> val, res |-> get_speed_sym(val),
           back |-> get_speed_val(get_speed_sym(val))]
  /\ UNCHANGED << argc, optVars, args, stdout_tty, src_len, devVars, ioVars,
                  outVars, endVars, pc >>

InitLookup ==
  /\ args = << >>
  /\ src_len = 0
  /\ pc = "lookup"
  /\ stdout_tty = FALSE
  /\ q = NoLookup
  /\ InitProcess

NextLookup ==
  \/ \E sym \in LookupSyms : LookupVal(sym)
  \/ \E val \in LookupVals : LookupSym(val)

SpecLookup == InitLookup /\ [][NextLookup]_vars

\* ------------------------------------------------------------------------
\* Vocabulary of the properties
\* ------------------------------------------------------------------------
InSeq(x, sq) == \E i \in 1..Len(sq) : sq[i] = x

IsPrefix(a, b) == Len(a) <= Len(b) /\ \A i \in 1..Len(a) : a[i] = b[i]

\* the endpoint the relay loop writes to, and what the source has delivered
Sink == IF opt_write THEN dev_data ELSE stdout_file
SourceRead == SrcData(0, rdpos)
Source == SrcData(0, src_len)

Exiting == pc \in { "exit", "exited" }
InRelay == pc \in { "read", "write", "close" }

\* device_open() has returned its descriptor to main
HandleReturned == (IF opt_write THEN tx_fd ELSE rx_fd) = DEV_FD

\* the i-th word of the command line is the operand of a -s before it
RECURSIVE IsOperand(_)
IsOperand(i) ==
  /\ i > 1
  /\ args[i - 1] \in { "-s", "--speed" }
  /\ ~IsOperand(i - 1)

\* one of the words W appears as an option
Given(W) == \E i \in 1..Len(args) : args[i] \in W /\ ~IsOperand(i)

PathGiven == \E i \in 1..Len(args) : args[i] \notin OptionWords /\ ~IsOperand(i)

FlowGiven == Given({ "-f", "--hwflow" }) \/ Given({ "-n", "--noflow" })

\* a -s with its operand appears; the operand of the last one is requested
SpeedGiven == \E i \in 1..Len(args) : IsOperand(i)
RequestedInTable == speed_ul[1] = 0 /\ speed_ul[2] \in TableVals


\* ------------------------------------------------------------------------
\* Properties
\* ------------------------------------------------------------------------

\* C7: the two lookups are inverse to each other on every entry of the speed
\* table, and a symbol or value that is not in the table gives -1, which is
\* no value and no symbol of the table (so it differs from the 0 bps entry).
C7_LookupsInverse ==
  /\ q.fn = "get_speed_val" =>
       IF q.arg \in TableSyms
         THEN /\ \E i \in 1..NSPEEDS : speeds[i].sym = q.arg /\ speeds[i].val = q.res
              /\ q.back = q.arg
         ELSE /\ q.res = -1
              /\ q.res \notin TableVals
              /\ q.res # get_speed_val(0)
  /\ q.fn = "get_speed_sym" =>
       IF q.arg \in TableVals
         THEN /\ \E i \in 1..NSPEEDS : speeds[i].val = q.arg /\ speeds[i].sym = q.res
              /\ q.back = q.arg
         ELSE /\ q.res = -1
              /\ q.res \notin TableSyms
              /\ q.res # get_speed_sym(0)

\* 4000000 bps has gone to its symbol and back
C7_Witness ==
  /\ q.fn = "get_speed_sym"
  /\ q.arg = 4000000
  /\ q.res = 4111
  /\ q.back = 4000000

\* C6: when -f and -n both appear as options, or -r and -w both appear as
\* options, or no device path is given, the process never opens the device,
\* never reads and never writes an endpoint, and the only status it exits
\* with is 1; once the arguments are read it can only go to usage().
ConflictGiven ==
  \/ (Given({ "-f", "--hwflow" }) /\ Given({ "-n", "--noflow" }))
  \/ (Given({ "-r", "--read" }) /\ Given({ "-w", "--write" }))
  \/ ~PathGiven

C6_UsageBeforeIO ==
  ConflictGiven =>
    /\ pc \in { "parse", "exit", "exited" }
    /\ ops = << >> /\ fd = UNSET
    /\ rdpos = 0 /\ in = UNSET /\ out = UNSET
    /\ stdout_file = << >> /\ stdio_buf = << >> /\ dev_data = << >>
    /\ (pc = "parse" => exit_status = << >>)
    /\ (pc = "parse" /\ argc <= 1 => BadOptions)
    /\ (Exiting => exit_status = << EXIT_USAGE >> /\ stderr = << Msg(153) >>)

\* "--noflow <dev> -f" has exited with status 1
C6_Witness ==
  /\ args = << "--noflow", DevPath, "-f" >>
  /\ pc = "exited"
  /\ exit_status = << EXIT_USAGE >>
  /\ ops = << >>


\* C3: when tcgetattr() reports ENOTTY (the path is a regular file) no
\* configuration call is issued on the descriptor, whatever flow control and
\* speed were asked for: termios and the device settings are never touched,
\* the descriptor is returned and the relay loop runs.  When tcgetattr()
\* fails otherwise the process exits with a non-zero status, tcgetattr being
\* its last call on the device, and no descriptor is returned.
RelayErrors == { Msg(310), Msg(316), Msg(320) }

C3_NotTtySkipsConfig ==
  /\ (dev_kind = "file" /\ InSeq("tcgetattr", ops)) =>
       /\ ops \in { << "open", "tcgetattr" >>, << "open", "tcgetattr", "close" >> }
       /\ termios = NoTermios /\ dev_attr = NoTermios
       /\ HandleReturned
       /\ InRelay \/ Exiting
       /\ \A i \in 1..Len(stderr) : stderr[i] \in RelayErrors
  /\ InSeq(Msg(190), stderr) =>
       /\ Exiting
       /\ exit_status = << EXIT_M1 >>
       /\ ops = << "open", "tcgetattr" >>
       /\ ~HandleReturned
       /\ rdpos = 0 /\ in = UNSET

\* a regular file opened with the unsupported speed 12345 is being relayed
C3_Witness ==
  /\ dev_kind = "file"
  /\ opt_speed = 12345
  /\ pc = "write"
  /\ ops = << "open", "tcgetattr" >>

\* C8: the process exits with status 0 exactly when device_open() returned
\* the descriptor and the loop ended on a read of zero bytes at the end of
\* the source, with nothing reported on the error stream; usage() exits
\* with 1; every reported open, attribute, speed, flush, read, write or
\* short-write failure exits with the non-zero status of exit(-1).
FailureMsgs == { Msg(177), Msg(190), Msg(202), Msg(214), Msg(224), Msg(229),
                 Msg(234), Msg(246), Msg(310), Msg(316), Msg(320) }

CleanEnd ==
  /\ HandleReturned
  /\ in = 0 /\ rdpos = src_len
  /\ stderr = << >>
  /\ ops # << >> /\ ops[Len(ops)] = "close"

C8_ExitStatus ==
  /\ ~Exiting => exit_status = << >>
  /\ Exiting =>
       /\ exit_status \in { << EXIT_OK >>, << EXIT_USAGE >>, << EXIT_M1 >> }
       /\ exit_status = << EXIT_OK >> <=> CleanEnd
       /\ exit_status = << EXIT_USAGE >> <=> stderr = << Msg(153) >>
       /\ exit_status = << EXIT_M1 >> <=>
            (Len(stderr) = 1 /\ stderr[1] \in FailureMsgs)
  /\ \A i \in 1..Len(stderr) :
       /\ Exiting
       /\ stderr[i] \in FailureMsgs => exit_status = << EXIT_M1 >>

\* the source has been relayed to its end and the process is gone with 0
C8_Witness ==
  /\ pc = "exited"
  /\ exit_status = << EXIT_OK >>
  /\ src_len > 0 /\ rdpos = src_len

\* C9: on a terminal the calls on the device are, in this order, open,
\* tcgetattr, tcsetattr for raw mode, tcsetattr for flow control (exactly
\* when -f or -n was given), tcsetattr for the speed (only when -s was
\* given), tcflush; a call that fails is the last call and the process
\* exits with a non-zero status without returning the descriptor; the
\* descriptor is returned only after tcflush, and not a byte is read or
\* written before that.
ConfigOrder(flow, speed) ==
  << "open", "tcgetattr", "tcsetattr:raw" >>
    \o (IF flow THEN << "tcsetattr:hwflow" >> ELSE << >>)
    \o (IF speed THEN << "tcsetattr:speed" >> ELSE << >>)
    \o << "tcflush" >>

ConfigOps ==
  IF ops # << >> /\ ops[Len(ops)] = "close" THEN SubSeq(ops, 1, Len(ops) - 1)
  ELSE ops

FailedCall ==
  { << Msg(177), "open" >>, << Msg(190), "tcgetattr" >>,
    << Msg(202), "tcsetattr:raw" >>, << Msg(214), "tcsetattr:hwflow" >>,
    << Msg(234), "tcsetattr:speed" >>, << Msg(246), "tcflush" >> }

C1_RelayDelivers ==
  (pc = "exited" /\ HandleReturned
     /\ \A i \in 1..Len(stderr) : stderr[i] \notin RelayErrors) =>
    /\ exit_status = << EXIT_OK >>
    /\ Sink = Source

\* C2: a write that returns fewer bytes than were read (0 included) makes
\* the process exit with a non-zero status; the sink has then taken the
\* bytes of that write and takes nothing after them, and the source is not
\* read again.
C2_ShortWriteFatal ==
  [][ /\ (pc = "write" /\ out' >= 0 /\ out' < in) =>
           /\ pc' = "exit"
           /\ exit_status' = << EXIT_M1 >>
           /\ Sink' = Sink \o SubSeq(buf, 1, out')
           /\ rdpos' = rdpos
      /\ InSeq(Msg(320), stderr) =>
           /\ Sink' = Sink
           /\ rdpos' = rdpos
           /\ exit_status' = exit_status
           /\ pc' = "exited"
    ]_vars

\* C4: on a terminal, a speed given with -s whose value is in the speed
\* table (0 included) has been translated to its symbol, set as input and
\* output speed and applied by the time device_open() returns; the speed is
\* left as it was only when no -s was given.
C4_SpeedApplied ==
  (dev_kind = "tty" /\ HandleReturned) =>
    /\ (SpeedGiven /\ RequestedInTable) =>
         /\ InSeq("tcsetattr:speed", ops)
         /\ dev_attr.ispeed = get_speed_sym(speed_ul[2])
         /\ dev_attr.ospeed = get_speed_sym(speed_ul[2])
    /\ ~InSeq("tcsetattr:speed", ops) => ~SpeedGiven

\* C5: on a terminal, a requested speed whose value is not in the speed
\* table ends the process with a non-zero status before any speed is set or
\* applied: no cfsetspeed, no tcsetattr for the speed, no tcflush, no
\* descriptor returned, no byte read or written.
C5_UnsupportedSpeedFatal ==
  (dev_kind = "tty" /\ SpeedGiven /\ ~RequestedInTable) =>
    /\ ~InSeq("tcsetattr:speed", ops)
    /\ ~InSeq("tcflush", ops)
    /\ InSeq("tcsetattr:raw", ops) =>
         (termios.ispeed = dev_attr.ispeed /\ termios.ospeed = dev_attr.ospeed)
    /\ pc \notin { "flush", "read", "write", "close" }
    /\ ~HandleReturned
    /\ rdpos = 0 /\ in = UNSET /\ out = UNSET
    /\ Exiting => exit_status = << EXIT_M1 >>

\* C10: in every state of the relay loop, and of an exit out of it, what
\* the sink has accepted is a prefix of what the source has delivered, at
\* most one chunk of at most BUF_SIZE bytes is read and not yet written, a
\* write is pending only for a non-empty chunk, and at the next read every
\* chunk read so far has been written once.
C10_RelayInvariant ==
  (InRelay \/ (Exiting /\ HandleReturned)) =>
    /\ IsPrefix(Sink, SourceRead)
    /\ rdpos - Len(Sink) <= BUF_SIZE
    /\ pc = "write" => (in > 0 /\ in <= BUF_SIZE /\ Len(buf) = in
                          /\ Sink \o buf = SourceRead)
    /\ pc \in { "read", "close" } => Sink = SourceRead

=============================================================================
